---- MODULE Spec2Model ----
(***************************************************************************)
(* Model of scripts/geocode-addresses.py: the batch job that resolves the  *)
(* records of a TeslaMate database that still point at the placeholder     *)
(* ("Pending Geocode") address.                                            *)
(*                                                                         *)
(* Coordinates are integers in units of 0.0001 degree, so the default grid *)
(* size 0.0005 is 5.  The store is modelled as the committed database `db` *)
(* and the connection's open transaction `tx` (autocommit is off): the run *)
(* reads and writes `tx`, conn.commit() copies `tx` to `db`, and a crash   *)
(* or conn.close() drops the uncommitted part.                             *)
(***************************************************************************)
EXTENDS Integers, Sequences, FiniteSets, TLC

\* ------------------------------------------------------------------ bounds
NumRecords  == 3      \* rows that carry an address reference
MaxRuns     == 2      \* consecutive runs of the script in one behaviour
NumBig      == 51     \* pending rows of the large store (one cluster each)
MaxFail     == 1      \* provider failures allowed in a run over the large store
MaxLate     == 1      \* rows, and addresses, other writers commit during a run

\* ------------------------------------------------------- program constants
DEFAULT_GRID_SIZE == 5     \* 0.0005 degree
COMMIT_EVERY      == 50    \* "if api_calls % 50 == 0: conn.commit()"
DEFAULT_DELAY     == 1     \* --delay default 0.1 s, in tenths of a second

\* SQL NULL / Python None, where an id or a coordinate is expected
NULL == -1

RecordTypes == <<"drive_start", "drive_end", "charging">>

\* The kind of row r: a drive's start reference, a drive's end reference, a
\* charging process, then again.
TypeOf(r) == RecordTypes[((r - 1) % 3) + 1]

\* Positions the telemetry rows may carry: the first two lie in the same grid
\* cell, the third in another one.
Coords == << <<420001, -710001>>, <<419999, -710002>>, <<420500, -710500>> >>

\* ---------------------------------------------------------- pure functions
\* Truncation toward minus infinity instead of Python's round().
RoundDown(x, g) == x \div g

\* Python's round(): to the nearest integer, ties to the even one.
RoundHalfEven(x, g) ==
    LET q == x \div g
        r == x - q * g
    IN  IF 2 * r < g THEN q
        ELSE IF 2 * r > g THEN q + 1
        ELSE IF q % 2 = 0 THEN q ELSE q + 1

snap_to_grid(lat, lng, grid_size) ==
    << RoundHalfEven(lat, grid_size) * grid_size,
       RoundHalfEven(lng, grid_size) * grid_size >>

\* The address row built from a provider result: it carries the grid cell,
\* not the coordinate that was sent to the provider.
google_result_to_address(grid_lat, grid_lng) ==
    [lat |-> grid_lat, lng |-> grid_lng, placeholder |-> FALSE]


\* -------------------------------------------------------------------- state
VARIABLES
    positions,      \* row -> <<lat, lng>> of its position (never written)
    db,             \* committed store: [addresses, refs]
    tx,             \* the connection's view: db plus uncommitted writes
    seq,            \* next value of the addresses id sequence
    pc,             \* where main() is
    runs,           \* number of the current run
    dry_run,        \* args.dry_run
    placeholder_id,
    pending,        \* get_pending_records(): sequence of rows
    clusters,       \* dict cell -> rows, as the sequence of its items
    existing,       \* get_existing_addresses(): sequence of address ids
    existing_grid,  \* dict cell -> address id
    cells_to_geocode,
    i,              \* position of the running loop in its dict
    matched_from_existing,
    records_updated_phase1,
    api_calls,
    api_errors,
    records_updated_phase2,
    calls,          \* history: provider calls of this run, in order
    uncommitted,    \* history: cells looked up but not yet committed
    crashed_in,     \* history: where the run was when it crashed
    fail_limit,     \* environment: provider failures possible in one run
    sleeps,         \* history: time.sleep(args.delay) calls of this run
    late,           \* history: what other writers committed after the snapshot
    db0,            \* history: the committed store when the run started
    prev            \* history: summary of the previous run

locals == << dry_run, placeholder_id, pending, clusters, existing, existing_grid,
             cells_to_geocode, i, matched_from_existing,
             records_updated_phase1, api_calls, api_errors,
             records_updated_phase2 >>

vars == << positions, db, tx, seq, pc, runs, locals, calls, uncommitted,
           crashed_in, fail_limit, sleeps, late, db0, prev >>

Recs == DOMAIN positions

Running  == {"find", "pending", "existing", "phase1", "phase2", "phase3"}
Terminal == {"exit1", "no_placeholder", "no_pending", "done", "crashed"}

\* ------------------------------------------------------------ store access
Min(S) == CHOOSE x \in S : \A y \in S : x <= y
Max(S) == CHOOSE x \in S : \A y \in S : x >= y

Asc(S) ==
    [k \in 1..Cardinality(S) |->
        CHOOSE x \in S : Cardinality({ y \in S : y < x }) = k - 1]

Desc(S) ==
    [k \in 1..Cardinality(S) |->
        CHOOSE x \in S : Cardinality({ y \in S : y > x }) = k - 1]

\* A query without ORDER BY returns its rows in an order the program does not
\* control: here ascending or descending identity.
ScanOrders(S) == { Asc(S), Desc(S) }

\* SELECT id FROM addresses WHERE display_name LIKE '%Pending Geocode%' LIMIT 1
find_placeholder_id(s) ==
    LET P == { a \in DOMAIN s.addresses : s.addresses[a].placeholder }
    IN  IF P = {} THEN NULL ELSE Min(P)

RowsOfType(s, placeholder, t) ==
    { r \in DOMAIN s.refs : TypeOf(r) = t /\ s.refs[r] = placeholder }

\* The three SELECTs of get_pending_records, drive starts first, then drive
\* ends, then charging processes: every possible result.
get_pending_records(s, placeholder) ==
    { a \o b \o c :
        a \in ScanOrders(RowsOfType(s, placeholder, "drive_start")),
        b \in ScanOrders(RowsOfType(s, placeholder, "drive_end")),
        c \in ScanOrders(RowsOfType(s, placeholder, "charging")) }

\* SELECT ... FROM addresses WHERE id != placeholder AND latitude IS NOT NULL ...
get_existing_addresses(s, placeholder) ==
    ScanOrders({ a \in DOMAIN s.addresses :
                   a # placeholder /\ s.addresses[a].lat # NULL
                                   /\ s.addresses[a].lng # NULL })

RemainingRefsDrivesOnly(s, placeholder) ==
    Cardinality({ r \in DOMAIN s.refs :
                    s.refs[r] = placeholder /\ TypeOf(r) # "charging" })

\* The COUNT(*) of Phase 3 over the three reference columns.
RemainingRefs(s, placeholder) ==
    Cardinality({ r \in DOMAIN s.refs : s.refs[r] = placeholder })

\* UPDATE drives / charging_processes SET ..._address_id = address_id
update_recordsSkipsCharging(s, record_type, record_id, address_id) ==
    IF record_type \in {"drive_start", "drive_end"}
    THEN [s EXCEPT !.refs[record_id] = address_id]
    ELSE s

\* "UPDATE ... SET address_id = %s WHERE address_id = <the row's old one>"
update_recordsByReference(s, record_type, record_id, address_id) ==
    [s EXCEPT !.refs = [r \in DOMAIN s.refs |->
                           IF s.refs[r] = s.refs[record_id] THEN address_id
                           ELSE s.refs[r]]]

\* "UPDATE drives SET start_address_id = %s, end_address_id = %s WHERE id = %s"
\* for a drive's end: the row before a drive_end row is that drive's start.
update_recordsBothEnds(s, record_type, record_id, address_id) ==
    IF record_type = "drive_end"
    THEN [s EXCEPT !.refs[record_id] = address_id, !.refs[record_id - 1] = address_id]
    ELSE [s EXCEPT !.refs[record_id] = address_id]

update_records(s, record_type, record_id, address_id) ==
    IF record_type \in {"drive_start", "drive_end", "charging"}
    THEN [s EXCEPT !.refs[record_id] = address_id]
    ELSE s

\* "for record_id, record_type, _, _ in records: update_records(...)"
RECURSIVE FanOut(_, _, _)
FanOut(s, records, address_id) ==
    IF records = << >> THEN s
    ELSE FanOut(update_records(s, TypeOf(Head(records)), Head(records), address_id),
                Tail(records), address_id)

\* conn.commit(): the committed store becomes what the transaction wrote
conn_commitForgotten(committed, written) == committed

conn_commit(committed, written) == written

\* INSERT INTO addresses ... RETURNING id
insert_address(s, id, addr) ==
    [s EXCEPT !.addresses = (id :> addr) @@ @]

\* DELETE FROM addresses WHERE id = placeholder
delete_address(s, id) ==
    [s EXCEPT !.addresses = [a \in (DOMAIN @) \ {id} |-> @[a]]]

\* ------------------------------------------------------ clustering, catalog
CellOf(r) == snap_to_grid(positions[r][1], positions[r][2], DEFAULT_GRID_SIZE)

\* Lines 333-338: "if cell not in clusters: clusters[cell] = [];
\* clusters[cell].append(...)".  A dict keeps its keys in the order of their
\* first insertion, and each list the order of the appends.
BuildClusters(rows) ==
    LET cells == [k \in 1..Len(rows) |-> CellOf(rows[k])]
        firsts == Asc({ k \in 1..Len(rows) :
                          \A l \in 1..(k - 1) : cells[l] # cells[k] })
    IN  [j \in 1..Len(firsts) |->
            [cell    |-> cells[firsts[j]],
             records |-> SelectSeq(rows, LAMBDA r : CellOf(r) = cells[firsts[j]])]]

\* "if cell not in grid: grid[cell] = addr_id": of the rows of one cell, the
\* one enumerated first stays.
KeptLast(K) == Max(K)

Kept(K) == Min(K)

build_existing_grid(s, existing_addresses) ==
    LET cells == [k \in 1..Len(existing_addresses) |->
                     snap_to_grid(s.addresses[existing_addresses[k]].lat,
                                  s.addresses[existing_addresses[k]].lng,
                                  DEFAULT_GRID_SIZE)]
    IN  [cell \in { cells[k] : k \in 1..Len(existing_addresses) } |->
            existing_addresses[Kept({ k \in 1..Len(existing_addresses) :
                                        cells[k] = cell })]]

EmptyGrid == [c \in {} |-> 0]


\* ------------------------------------------------------------ initial state
PlaceholderRow == [lat |-> 0, lng |-> 0, placeholder |-> TRUE]

\* Address rows present before the first run: one TeslaMate created at the
\* position it geocoded, one an earlier run created at a grid cell, and one
\* without a coordinate.
TeslaMateRow == [lat |-> 420002, lng |-> -709998, placeholder |-> FALSE]
GridRow      == [lat |-> 420000, lng |-> -710000, placeholder |-> FALSE]
BlankRow     == [lat |-> NULL,   lng |-> NULL,    placeholder |-> FALSE]

ExistingCatalogs ==
    { << >>, << TeslaMateRow >>, << GridRow >>, << BlankRow >>,
      << TeslaMateRow, GridRow >>, << GridRow, TeslaMateRow >>,
      << BlankRow, TeslaMateRow >> }

\* The addresses table: the placeholder row or not, then the existing rows.
InitialAddresses ==
    { [a \in 1..Len(e) |-> e[a]] : e \in ExistingCatalogs }
    \cup
    { [a \in 1..(Len(e) + 1) |-> IF a = 1 THEN PlaceholderRow ELSE e[a - 1]] :
        e \in ExistingCatalogs }

\* A reference column holds the id of an address row (foreign key) or NULL:
\* here the placeholder, or else the first resolved address there is.
InitialRefs(addresses) ==
    LET P == { a \in DOMAIN addresses : addresses[a].placeholder }
        R == (DOMAIN addresses) \ P
    IN  [1..NumRecords -> P \cup (IF R = {} THEN {NULL} ELSE {Min(R)})]

InitialPositions ==
    { [r \in 1..NumRecords |-> Coords[f[r]]] :
        f \in { g \in [1..NumRecords -> 1..Len(Coords)] :
                  \A r \in 1..(NumRecords - 1) : g[r] <= g[r + 1] } }

\* Nothing was committed by another writer since the snapshot.
NoneLate == [rows |-> {}, addresses |-> {}]

NoRun == [pc |-> "none", crashed_in |-> "none", dry_run |-> FALSE, ok |-> {},
          lost |-> {}, api_errors |-> 0, report |-> << >>]

InitLocals ==
    /\ dry_run = FALSE
    /\ placeholder_id = NULL
    /\ pending = << >>
    /\ clusters = << >>
    /\ existing = << >>
    /\ existing_grid = EmptyGrid
    /\ cells_to_geocode = << >>
    /\ i = 0
    /\ matched_from_existing = 0
    /\ records_updated_phase1 = 0
    /\ api_calls = 0
    /\ api_errors = 0
    /\ records_updated_phase2 = 0
    /\ calls = << >>
    /\ uncommitted = {}
    /\ crashed_in = "none"
    /\ sleeps = 0
    /\ late = NoneLate

Init ==
    /\ positions \in InitialPositions
    /\ \E addresses \in InitialAddresses :
         \E refs \in InitialRefs(addresses) :
            db = [addresses |-> addresses, refs |-> refs]
    /\ tx = db
    /\ db0 = db
    /\ seq = Max(DOMAIN db.addresses \cup {0}) + 1
    /\ pc = "start"
    /\ runs = 1
    /\ fail_limit = NumRecords
    /\ prev = NoRun
    /\ InitLocals

\* ------------------------------------------------------------------ actions
\* Lines 273-302: argument checks, then connect (autocommit off).
Start(dry, api_key, db_pass) ==
    /\ pc = "start"
    /\ dry_run' = dry
    /\ pc' = IF (~api_key /\ ~dry) \/ ~db_pass THEN "exit1" ELSE "find"
    /\ tx' = db
    /\ UNCHANGED << positions, db, seq, runs, placeholder_id, pending,
                    clusters, existing, existing_grid, cells_to_geocode, i,
                    matched_from_existing, records_updated_phase1, api_calls,
                    api_errors, records_updated_phase2, calls, uncommitted,
                    crashed_in, fail_limit, sleeps, late, db0, prev >>

\* Lines 305-313.
FindPlaceholder ==
    /\ pc = "find"
    /\ placeholder_id' = find_placeholder_id(tx)
    /\ pc' = IF placeholder_id' = NULL THEN "no_placeholder" ELSE "pending"
    /\ UNCHANGED << positions, db, tx, seq, runs, dry_run, pending, clusters,
                    existing, existing_grid, cells_to_geocode, i, matched_from_existing,
                    records_updated_phase1, api_calls, api_errors,
                    records_updated_phase2, calls, uncommitted, crashed_in,
                    fail_limit, sleeps, late, db0, prev >>

\* Lines 315-340: the pending rows and their clusters.
GetPending ==
    /\ pc = "pending"
    /\ \E rows \in get_pending_records(tx, placeholder_id) :
         /\ pending' = rows
         /\ clusters' = BuildClusters(rows)
         /\ pc' = IF rows = << >> THEN "no_pending" ELSE "existing"
    /\ UNCHANGED << positions, db, tx, seq, runs, dry_run, placeholder_id,
                    existing, existing_grid, cells_to_geocode, i, matched_from_existing,
                    records_updated_phase1, api_calls, api_errors,
                    records_updated_phase2, calls, uncommitted, crashed_in,
                    fail_limit, sleeps, late, db0, prev >>

\* Lines 343-352: the catalog of existing addresses.
GetExisting ==
    /\ pc = "existing"
    /\ \E rows \in get_existing_addresses(tx, placeholder_id) :
         /\ existing' = rows
         /\ existing_grid' = build_existing_grid(tx, rows)
    /\ pc' = "phase1"
    /\ i' = 1
    /\ UNCHANGED << positions, db, tx, seq, runs, dry_run, placeholder_id,
                    pending, clusters, cells_to_geocode, matched_from_existing,
                    records_updated_phase1, api_calls, api_errors,
                    records_updated_phase2, calls, uncommitted, crashed_in,
                    fail_limit, sleeps, late, db0, prev >>

\* "if cell in existing_grid"
InCatalog(grid, cell) == cell \in DOMAIN grid

\* "if not args.dry_run: for ...: update_records(cur, ...)"
Phase1WriteIgnoresDryRun(s, dry, records, addr_id) == FanOut(s, records, addr_id)

Phase1Write(s, dry, records, addr_id) ==
    IF dry THEN s ELSE FanOut(s, records, addr_id)

\* Lines 355-364: one iteration of the Phase 1 loop.
Phase1Step ==
    /\ pc = "phase1"
    /\ i <= Len(clusters)
    /\ LET cell == clusters[i].cell
           records == clusters[i].records
       IN  IF InCatalog(existing_grid, cell)
           THEN /\ matched_from_existing' = matched_from_existing + 1
                /\ tx' = Phase1Write(tx, dry_run, records, existing_grid[cell])
                /\ records_updated_phase1' = records_updated_phase1 + Len(records)
                /\ UNCHANGED cells_to_geocode
           ELSE /\ cells_to_geocode' = Append(cells_to_geocode, clusters[i])
                /\ UNCHANGED << matched_from_existing, tx, records_updated_phase1 >>
    /\ i' = i + 1
    /\ UNCHANGED << positions, db, seq, pc, runs, dry_run, placeholder_id,
                    pending, clusters, existing, existing_grid, api_calls, api_errors,
                    records_updated_phase2, calls, uncommitted, crashed_in,
                    fail_limit, sleeps, late, db0, prev >>

\* Lines 366-372: "if not args.dry_run: conn.commit()".
Commit1 ==
    /\ pc = "phase1"
    /\ i > Len(clusters)
    /\ db' = IF dry_run THEN db ELSE conn_commit(db, tx)
    /\ pc' = "phase2"
    /\ i' = 1
    /\ UNCHANGED << positions, tx, seq, runs, dry_run, placeholder_id, pending,
                    clusters, existing, existing_grid, cells_to_geocode,
                    matched_from_existing, records_updated_phase1, api_calls,
                    api_errors, records_updated_phase2, calls, uncommitted,
                    crashed_in, fail_limit, sleeps, late, db0, prev >>

\* Lines 376-379 and 467-477: a dry run reports the projected work and ends;
\* conn.close() drops what was not committed.
DryReport ==
    /\ pc = "phase2"
    /\ dry_run
    /\ pc' = "done"
    /\ tx' = db
    /\ UNCHANGED << positions, db, seq, runs, locals, calls, uncommitted,
                    crashed_in, fail_limit, sleeps, late, db0, prev >>

\* "if api_calls % 50 == 0" (inside "if result:")
CommitDue(n) == n % COMMIT_EVERY = 0

\* enumerate(cells_to_geocode.items(), 1): the loop moves on whatever the result
NextClusterRetries(k, ok) == IF ok THEN k + 1 ELSE k

NextCluster(k, ok) == k + 1

\* "if result:" (None when the provider gave no usable result)
UsableAlways(ok) == TRUE

Usable(ok) == ok

\* Lines 392-424: one iteration of the Phase 2 loop; ok is whether
\* reverse_geocode_google returned a result (otherwise None).
\* records[0]: the record whose actual coordinates are sent to the provider.
RepresentativeLast(records) == records[Len(records)]

Representative(records) == records[1]

\* The catalog after a Phase 2 insert: main() builds existing_grid once,
\* before Phase 1, and has no assignment to it in the Phase 2 loop.
CatalogAfterInsertRegisters(grid, cell, address_id) ==
    [c \in DOMAIN grid \cup {cell} |-> IF c = cell THEN address_id ELSE grid[c]]

CatalogAfterInsert(grid, cell, address_id) == grid

\* if args.delay > 0: time.sleep(args.delay)
Sleeps(delay) == delay > 0

Lookup(ok) ==
    /\ pc = "phase2"
    /\ ~dry_run
    /\ i <= Len(cells_to_geocode)
    /\ ok \/ api_errors < fail_limit
    /\ LET cell == cells_to_geocode[i].cell
           records == cells_to_geocode[i].records
           actual == positions[Representative(records)]
           addr == google_result_to_address(cell[1], cell[2])
           addr_id == seq
           written == FanOut(insert_address(tx, addr_id, addr), records, addr_id)
       IN  /\ calls' = Append(calls, [cell |-> cell, at |-> actual, ok |-> ok])
           /\ api_calls' = api_calls + 1
           /\ IF Usable(ok)
              THEN /\ seq' = seq + 1
                   /\ tx' = written
                   /\ records_updated_phase2' = records_updated_phase2 + Len(records)
                   /\ IF CommitDue(api_calls')
                      THEN db' = conn_commit(db, written) /\ uncommitted' = {}
                      ELSE db' = db /\ uncommitted' = uncommitted \cup {cell}
                   /\ existing_grid' = CatalogAfterInsert(existing_grid, cell, addr_id)
                   /\ UNCHANGED api_errors
              ELSE /\ api_errors' = api_errors + 1
                   /\ UNCHANGED << seq, tx, db, records_updated_phase2,
                                   uncommitted, existing_grid >>
    /\ sleeps' = IF Sleeps(DEFAULT_DELAY) THEN sleeps + 1 ELSE sleeps
    /\ i' = NextCluster(i, ok)
    /\ UNCHANGED << positions, pc, runs, dry_run, placeholder_id, pending,
                    clusters, existing, cells_to_geocode,
                    matched_from_existing, records_updated_phase1, crashed_in,
                    fail_limit, late, db0, prev >>

\* Line 426: the commit that ends Phase 2.
Commit2 ==
    /\ pc = "phase2"
    /\ ~dry_run
    /\ i > Len(cells_to_geocode)
    /\ db' = conn_commit(db, tx)
    /\ uncommitted' = {}
    /\ pc' = "phase3"
    /\ UNCHANGED << positions, tx, seq, runs, locals, calls, crashed_in,
                    fail_limit, sleeps, late, db0, prev >>

\* "if remaining == 0"
PlaceholderUnusedAlways(remaining) == remaining >= 0

PlaceholderUnusedNever(remaining) == remaining < 0

PlaceholderUnused(remaining) == remaining = 0

\* Lines 435-477: count the references to the placeholder, delete it when
\* there is none (and commit), report; conn.close() drops what was not
\* committed.
Phase3 ==
    /\ pc = "phase3"
    /\ LET remaining == RemainingRefs(tx, placeholder_id)
       IN  IF PlaceholderUnused(remaining)
           THEN db' = conn_commit(db, delete_address(tx, placeholder_id))
           ELSE db' = db
    /\ tx' = db'
    /\ pc' = "done"
    /\ UNCHANGED << positions, seq, runs, locals, calls, uncommitted,
                    crashed_in, fail_limit, sleeps, late, db0, prev >>

\* The process dies (killed, connection lost, uncaught exception): the open
\* transaction is rolled back by the server.
Crash ==
    /\ pc \in Running
    /\ crashed_in' = pc
    /\ pc' = "crashed"
    /\ tx' = db
    /\ UNCHANGED << positions, db, seq, runs, locals, calls, uncommitted,
                    fail_limit, sleeps, late, db0, prev >>

OkCells(cs) == { cs[k].cell : k \in { j \in 1..Len(cs) : cs[j].ok } }

\* The script is started again on the store the last run left.
Rerun ==
    /\ pc \in Terminal \ {"exit1"}
    /\ runs < MaxRuns
    /\ runs' = runs + 1
    /\ prev' = [pc |-> pc,
                crashed_in |-> IF crashed_in = "phase2" THEN "phase2" ELSE "none",
                dry_run |-> dry_run,
                ok |-> OkCells(calls),
                lost |-> uncommitted,
                api_errors |-> api_errors,
                report |-> IF pc = "done"
                           THEN << Len(clusters), matched_from_existing,
                                   Len(cells_to_geocode) >>
                           ELSE << >>]
    /\ pc' = "start"
    /\ db0' = db
    /\ dry_run' = FALSE
    /\ placeholder_id' = NULL
    /\ pending' = << >>
    /\ clusters' = << >>
    /\ existing' = << >>
    /\ existing_grid' = EmptyGrid
    /\ cells_to_geocode' = << >>
    /\ i' = 0
    /\ matched_from_existing' = 0
    /\ records_updated_phase1' = 0
    /\ api_calls' = 0
    /\ api_errors' = 0
    /\ records_updated_phase2' = 0
    /\ calls' = << >>
    /\ uncommitted' = {}
    /\ crashed_in' = "none"
    /\ sleeps' = 0
    /\ late' = NoneLate
    /\ UNCHANGED << positions, db, tx, seq, fail_limit >>

\* One run of the script, and the ways it can end.
Run ==
    \/ \E dry \in BOOLEAN, api_key \in BOOLEAN, db_pass \in BOOLEAN :
          Start(dry, api_key, db_pass)
    \/ FindPlaceholder
    \/ GetPending
    \/ GetExisting
    \/ Phase1Step
    \/ Commit1
    \/ DryReport
    \/ \E ok \in BOOLEAN : Lookup(ok)
    \/ Commit2
    \/ Phase3
    \/ Crash

Next == Run \/ Rerun

Spec == Init /\ [][Next]_vars

\* ------------------------------------------------------- the large store
\* NumBig pending rows, each in a grid cell of its own, and no address but
\* the placeholder: a run long enough to reach the commit of Phase 2.
BigStore ==
    [addresses |-> [a \in {1} |-> PlaceholderRow],
     refs      |-> [r \in 1..NumBig |-> 1]]

InitBigStore ==
    /\ positions = [r \in 1..NumBig |-> << 420000 + 10 * r, -710000 >>]
    /\ db = BigStore
    /\ tx = db
    /\ db0 = db
    /\ seq = 2
    /\ pc = "start"
    /\ prev = NoRun
    /\ InitLocals

\* One run over the large store, the provider failing at most MaxFail times.
InitBig ==
    /\ InitBigStore
    /\ runs = 1
    /\ fail_limit = MaxFail

SpecBig == InitBig /\ [][Run]_vars

\* A run over the large store with a provider that always answers, and one
\* more run after it.
InitResume ==
    /\ InitBigStore
    /\ runs = MaxRuns - 1
    /\ fail_limit = 0

SpecResume == InitResume /\ [][Next]_vars

\* ------------------------------------------------------ other writers
\* The run reads the pending rows at lines 315-316 and the existing addresses
\* at line 344, each once, and works from those lists.  Meanwhile other
\* sessions commit to the same tables; a session at READ COMMITTED sees what
\* others committed, so both the committed store and the run's view get it.

\* Another session commits a new row (a drive end, a charging process ...)
\* that references the placeholder, after the run read the pending rows.
OtherAttach(at) ==
    /\ pc \in {"existing", "phase1", "phase2", "phase3"}
    /\ Cardinality(late.rows) < MaxLate
    /\ placeholder_id \in DOMAIN db.addresses
    /\ LET r == Len(positions) + 1
       IN  /\ positions' = Append(positions, at)
           /\ db' = [db EXCEPT !.refs = Append(@, placeholder_id)]
           /\ tx' = [tx EXCEPT !.refs = Append(@, placeholder_id)]
           /\ late' = [late EXCEPT !.rows = @ \cup {r}]
    /\ UNCHANGED << seq, pc, runs, locals, calls, uncommitted, crashed_in,
                    fail_limit, sleeps, db0, prev >>

\* Another session commits a new address row, after the run read the
\* existing addresses.
OtherAdd(at) ==
    /\ pc \in {"phase1", "phase2", "phase3"}
    /\ Cardinality(late.addresses) < MaxLate
    /\ LET addr == [lat |-> at[1], lng |-> at[2], placeholder |-> FALSE]
       IN  /\ db' = insert_address(db, seq, addr)
           /\ tx' = insert_address(tx, seq, addr)
           /\ late' = [late EXCEPT !.addresses = @ \cup {seq}]
    /\ seq' = seq + 1
    /\ UNCHANGED << positions, pc, runs, locals, calls, uncommitted,
                    crashed_in, fail_limit, sleeps, db0, prev >>

OtherWriter ==
    \/ \E at \in {Coords[1], Coords[3]} : OtherAttach(at)
    \/ \E at \in {Coords[2], Coords[3]} : OtherAdd(at)

\* One run over a store with two pending rows in the cell of an existing
\* address and one in a cell without, other sessions writing meanwhile.
ConcurrentStore ==
    [addresses |-> [a \in {1, 2} |-> IF a = 1 THEN PlaceholderRow ELSE GridRow],
     refs      |-> [r \in DOMAIN Coords |-> 1]]

InitConcurrent ==
    /\ positions = Coords
    /\ db = ConcurrentStore
    /\ tx = db
    /\ db0 = db
    /\ seq = 3
    /\ pc = "start"
    /\ prev = NoRun
    /\ runs = MaxRuns
    /\ fail_limit = 1
    /\ InitLocals

SpecConcurrent == InitConcurrent /\ [][Run \/ OtherWriter]_vars

\* ------------------------------------------------------- worked scenario
\* Grid size 0.0005; three pending rows at (42.0001, -71.0001),
\* (42.0003, -71.0002) and (42.0500, -71.0500); the placeholder and one
\* existing address at (42.0002, -71.0015).
ScenarioPositions ==
    << <<420001, -710001>>, <<420003, -710002>>, <<420500, -710500>> >>

ScenarioAddress == [lat |-> 420002, lng |-> -710015, placeholder |-> FALSE]

ScenarioStore ==
    [addresses |-> [a \in {1, 2} |-> IF a = 1 THEN PlaceholderRow
                                              ELSE ScenarioAddress],
     refs      |-> [r \in DOMAIN ScenarioPositions |-> 1]]

InitScenario ==
    /\ positions = ScenarioPositions
    /\ db = ScenarioStore
    /\ tx = db
    /\ db0 = db
    /\ seq = 3
    /\ pc = "start"
    /\ prev = NoRun
    /\ runs = MaxRuns - 1
    /\ fail_limit = Len(ScenarioPositions)
    /\ InitLocals

SpecScenario == InitScenario /\ [][Next]_vars


\* ------------------------------------------------------------------ claims
CallsFor(cell) == Cardinality({ k \in 1..Len(calls) : calls[k].cell = cell })

ClusterCells == { clusters[k].cell : k \in 1..Len(clusters) }

\* Clusters whose key the catalog of this run has, and those it lacks.
ReuseCells  == ClusterCells \cap DOMAIN existing_grid
LookupCells == ClusterCells \ DOMAIN existing_grid

RecordsOf(cell) ==
    LET k == CHOOSE j \in 1..Len(clusters) : clusters[j].cell = cell
    IN  { clusters[k].records[m] : m \in 1..Len(clusters[k].records) }

FailedCells == { calls[k].cell : k \in { j \in 1..Len(calls) : ~calls[j].ok } }

\* The run is past the commit that ends Phase 1.
Phase1Committed ==
    \/ pc \in {"phase2", "phase3", "done"}
    \/ pc = "crashed" /\ crashed_in \in {"phase2", "phase3"}

\* Address rows the current run inserted (in its transaction).
InsertedRows == (DOMAIN tx.addresses) \ (DOMAIN db0.addresses)

\* C1: in a non-dry run no cluster is ever looked up twice, and when the run
\* ends every cluster whose key the catalog lacks was sent to the provider
\* exactly once, whatever its size and whatever the provider answered, so that
\* the number of provider calls is the number of such clusters.
C1_OneCallPerLookupCluster ==
    /\ \A cell \in ClusterCells : CallsFor(cell) <= 1
    /\ (pc = "done" /\ ~dry_run) =>
          /\ \A cell \in LookupCells : CallsFor(cell) = 1
          /\ Len(calls) = Cardinality(LookupCells)
          /\ api_calls = Cardinality(LookupCells)

\* A finished real run with two looked-up clusters, one of several rows, one
\* lookup failing and one succeeding.
C1_Witness ==
    /\ pc = "done" /\ ~dry_run
    /\ Cardinality(LookupCells) = 2
    /\ \E cell \in LookupCells : Cardinality(RecordsOf(cell)) >= 2
    /\ api_errors = 1

\* C2: in a non-dry run, a cluster whose key the catalog has is never sent to
\* the provider, and once Phase 1 is committed every row of the cluster
\* references the catalog's address in the committed store.
C2_ReuseNeedsNoCall ==
    (~dry_run /\ pc \notin {"start", "exit1"}) =>
        \A cell \in ReuseCells :
            /\ CallsFor(cell) = 0
            /\ Phase1Committed =>
                  \A r \in RecordsOf(cell) : db.refs[r] = existing_grid[cell]

\* Phase 1 committed a reused cluster of two rows or more while another
\* cluster has been looked up.
C2_Witness ==
    /\ ~dry_run /\ Phase1Committed
    /\ \E cell \in ReuseCells : Cardinality(RecordsOf(cell)) >= 2
    /\ Len(calls) >= 1

\* C3: at every point of Phase 2, at most COMMIT_EVERY - 1 successful lookups
\* (address inserted, rows updated) are not yet committed.
C3_AtMostN1Uncommitted ==
    Cardinality(uncommitted) <= COMMIT_EVERY - 1

\* C4 as stated: after a completed non-dry run, the next run makes no provider
\* call, whatever the provider answered in the first.
C4_SecondRunNoCalls ==
    (prev.pc \in {"done", "no_pending", "no_placeholder"} /\ ~prev.dry_run) =>
        (api_calls = 0 /\ calls = << >>)

\* C4 amended: after a completed non-dry run in which no lookup failed, the
\* next run makes no provider call.
C4_SecondRunNoCallsAfterCleanRun ==
    (/\ prev.pc \in {"done", "no_pending", "no_placeholder"}
     /\ ~prev.dry_run
     /\ prev.api_errors = 0) =>
        (api_calls = 0 /\ calls = << >>)

\* The second run has ended after a first one that looked clusters up, all
\* with success.
C4_Witness ==
    /\ prev.pc = "done" /\ ~prev.dry_run /\ prev.api_errors = 0
    /\ prev.ok # {}
    /\ pc \in Terminal /\ ~dry_run /\ pc # "exit1"

\* C5: the placeholder row is gone only where no row of any kind references
\* it; a lookup failure never ends the run with an error exit nor leaves it
\* without a next step; and a non-dry run that ends after a failed lookup
\* leaves the placeholder in the store, still referenced.
C5_PlaceholderDeletedOnlyUnreferenced ==
    /\ \A s \in {db, tx} :
          (placeholder_id # NULL /\ placeholder_id \notin DOMAIN s.addresses) =>
              RemainingRefs(s, placeholder_id) = 0
    /\ api_errors > 0 =>
          /\ pc \in {"phase2", "phase3", "done", "crashed"}
          /\ pc = "phase2" => ENABLED (Lookup(TRUE) \/ Commit2)
          /\ pc = "phase3" => ENABLED Phase3
    /\ (pc = "done" /\ ~dry_run /\ api_errors > 0) =>
          /\ placeholder_id \in DOMAIN db.addresses
          /\ RemainingRefs(db, placeholder_id) > 0

\* A real run ended normally although a lookup failed, another succeeded.
C5_Witness ==
    /\ pc = "done" /\ ~dry_run
    /\ api_errors > 0
    /\ api_calls > api_errors

\* C6: a cluster whose lookup failed gets no address row, its rows keep
\* referencing the placeholder, it is sent to the provider once only, and the
\* loop goes on: the run reaches Phase 3 only after every cluster that needs
\* a lookup has been sent.
C6_FailureIsLocal ==
    /\ \A cell \in FailedCells :
          /\ CallsFor(cell) = 1
          /\ \A a \in InsertedRows :
                << tx.addresses[a].lat, tx.addresses[a].lng >> # cell
          /\ \A r \in RecordsOf(cell) :
                tx.refs[r] = placeholder_id /\ db.refs[r] = placeholder_id
    /\ Len(calls) = api_calls
    /\ Cardinality(FailedCells) = api_errors
    /\ (pc \in {"phase3", "done"} /\ ~dry_run) =>
          \A k \in 1..Len(cells_to_geocode) : CallsFor(cells_to_geocode[k].cell) = 1

\* The first lookup of a run failed for a cluster of several rows, and the run
\* went on to look the next cluster up with success.
C6_Witness ==
    /\ pc = "done"
    /\ Len(calls) = 2
    /\ ~calls[1].ok /\ calls[2].ok
    /\ Cardinality(RecordsOf(calls[1].cell)) >= 2

\* C7: a dry run writes nothing (no row updated, no address inserted or
\* deleted, nothing committed) and calls the provider never; and a real run
\* started on the store a finished dry run left counts the clusters, the reuse
\* matches and the clusters needing a lookup the dry run reported.
C7_DryRunSameCountsNoEffects ==
    /\ dry_run => /\ tx = db0 /\ db = db0
                  /\ calls = << >> /\ api_calls = 0
                  /\ InsertedRows = {}
    /\ (/\ prev.pc = "done" /\ prev.dry_run
        /\ ~dry_run /\ pc \in {"phase2", "phase3", "done"}) =>
          << Len(clusters), matched_from_existing, Len(cells_to_geocode) >>
              = prev.report

\* A real run after a finished dry run, with a reuse match and a lookup.
C7_Witness ==
    /\ prev.pc = "done" /\ prev.dry_run
    /\ ~dry_run /\ pc = "done"
    /\ matched_from_existing >= 1
    /\ Len(cells_to_geocode) >= 1
    /\ db # db0

\* C8 as stated: a non-dry run that found the placeholder and ended normally,
\* with or without pending rows, has removed the placeholder when no row
\* references it.
C8_UnreferencedPlaceholderRemoved ==
    (/\ pc \in {"done", "no_pending"} /\ ~dry_run
     /\ placeholder_id # NULL
     /\ RemainingRefs(db, placeholder_id) = 0) =>
        placeholder_id \notin DOMAIN db.addresses

\* C8 amended: a non-dry run that found the placeholder and at least one
\* pending row, and ended normally, has removed the placeholder when no row
\* references it.
C8_RemovedAfterProcessing ==
    (/\ pc = "done" /\ ~dry_run
     /\ placeholder_id # NULL
     /\ RemainingRefs(db, placeholder_id) = 0) =>
        placeholder_id \notin DOMAIN db.addresses

\* A real run resolved every pending row, by reuse and by lookup.
C8_Witness ==
    /\ pc = "done" /\ ~dry_run
    /\ RemainingRefs(db, placeholder_id) = 0
    /\ matched_from_existing >= 1 /\ records_updated_phase2 >= 1

\* C9 as stated: the run after a crash in Phase 2 sends the provider no
\* cluster whose lookup had succeeded before the crash.
C9_NoRepeatedLookupAfterCrash ==
    (prev.pc = "crashed" /\ prev.crashed_in = "phase2") =>
        \A k \in 1..Len(calls) : calls[k].cell \notin prev.ok

\* C9 amended: the run after a crash in Phase 2 sends the provider no cluster
\* whose successful lookup had been committed before the crash.
C9_NoRepeatedLookupOfCommitted ==
    (prev.pc = "crashed" /\ prev.crashed_in = "phase2") =>
        \A k \in 1..Len(calls) : calls[k].cell \notin (prev.ok \ prev.lost)

\* The run after a crash in Phase 2 that had committed lookups and lost
\* others looks clusters up again.
C9_Witness ==
    /\ prev.pc = "crashed" /\ prev.crashed_in = "phase2"
    /\ prev.ok \ prev.lost # {}
    /\ prev.lost # {}
    /\ Len(calls) >= 1

\* C10: in the committed store every reference of a row that is not NULL is
\* the id of an address row of the store.
C10_ReferentialIntegrity ==
    \A r \in DOMAIN db.refs :
        db.refs[r] # NULL => db.refs[r] \in DOMAIN db.addresses

\* A run crashed in Phase 2 after a failed and a successful lookup, the
\* latter not committed.
C10_Witness ==
    /\ pc = "crashed" /\ crashed_in = "phase2"
    /\ api_errors >= 1
    /\ uncommitted # {}

\* C11: in a non-dry run, from the moment Phase 2 begins (before the first
\* provider call is attempted) and ever after, every row of every cluster the
\* catalog matched references the catalog's address in the committed store;
\* the run sleeps only after a provider call; and a finished run in which
\* every cluster matched the catalog made no provider call and no sleep.
C11_ReuseCommittedBeforeLookups ==
    /\ (~dry_run /\ (pc = "phase2" \/ Len(calls) >= 1)) =>
          \A cell \in ReuseCells : \A r \in RecordsOf(cell) :
              db.refs[r] = existing_grid[cell]
    /\ sleeps <= Len(calls)
    /\ (pc = "done" /\ ~dry_run /\ LookupCells = {}) =>
          (Len(calls) = 0 /\ api_calls = 0 /\ sleeps = 0)

\* A real run about to attempt its first provider call, after a Phase 1 that
\* fanned a catalog address out to the rows of a matched cluster.
C11_Witness ==
    /\ pc = "phase2" /\ ~dry_run
    /\ api_calls = 0 /\ Len(cells_to_geocode) >= 1
    /\ ReuseCells # {}
    /\ records_updated_phase1 >= 1

\* The run still holds its connection and what it wrote in Phase 2.
InPhase2OrLater == pc \in {"phase2", "phase3", "done"}

ScenarioRunDone == prev = NoRun /\ pc = "done" /\ ~dry_run

\* C13: the scenario's run builds exactly 2 clusters, the one of the first
\* two rows reuses the existing address, and the run makes exactly 1 provider
\* call.
C13_TwoClustersOneCall ==
    ScenarioRunDone =>
        /\ Len(clusters) = 2
        /\ db.refs[1] = 2 /\ db.refs[2] = 2
        /\ api_calls = 1

\* C13 amended: the scenario's run builds exactly 3 clusters, one per row
\* (42.0001 snaps to 42.0000 and 42.0003 to 42.0005); the existing address
\* snaps to (42.0000, -71.0015), the key of no cluster, so no cluster reuses
\* it and the run makes exactly 3 provider calls.
C13_ThreeClustersThreeCalls ==
    /\ pc \in {"existing", "phase1", "phase2", "phase3", "done"} /\ prev = NoRun =>
          /\ Len(clusters) = 3
          /\ \A k \in 1..3 : Len(clusters[k].records) = 1
          /\ ClusterCells = { <<420000, -710000>>, <<420005, -710000>>,
                              <<420500, -710500>> }
    /\ pc \in {"phase1", "phase2", "phase3", "done"} /\ prev = NoRun =>
          /\ DOMAIN existing_grid = { <<420000, -710015>> }
          /\ ReuseCells = {}
    /\ ScenarioRunDone =>
          /\ matched_from_existing = 0
          /\ api_calls = 3 /\ Len(calls) = 3
          /\ \A r \in 1..3 : db.refs[r] # 2

\* The scenario's first run finished as a real run, the provider having
\* answered at least once.
C13_Witness ==
    /\ ScenarioRunDone
    /\ positions = ScenarioPositions
    /\ db0 = ScenarioStore
    /\ records_updated_phase2 >= 1

\* The catalog key of the k-th address the run enumerated.
ExistingCell(k) ==
    snap_to_grid(db0.addresses[existing[k]].lat, db0.addresses[existing[k]].lng,
                 DEFAULT_GRID_SIZE)

\* C14: the catalog has one entry per key of an enumerated address, and the
\* entry is the first address of that key in the order of enumeration: an
\* address enumerated later never replaces it.
C14_FirstEnumeratedKept ==
    /\ DOMAIN existing_grid = { ExistingCell(k) : k \in 1..Len(existing) }
    /\ \A k \in 1..Len(existing) :
          \E j \in 1..k :
              /\ ExistingCell(j) = ExistingCell(k)
              /\ existing_grid[ExistingCell(k)] = existing[j]
              /\ \A m \in 1..(j - 1) : ExistingCell(m) # ExistingCell(k)

\* A catalog built from two addresses of the same key that were enumerated
\* with the higher id first: the entry is the higher id.
C14_Witness ==
    /\ pc = "phase1"
    /\ \E j, k \in 1..Len(existing) :
          /\ j < k
          /\ ExistingCell(j) = ExistingCell(k)
          /\ existing[j] > existing[k]
          /\ existing_grid[ExistingCell(k)] = existing[j]

\* C15: a row another session attached to the placeholder after the run read
\* the pending rows is in no cluster of the run and still references the
\* placeholder, in the run's view and in the committed store; an address
\* another session added after the run read the existing addresses is in no
\* catalog entry, and the run points no row at it.
C15_SnapshotNotRefreshed ==
    /\ \A r \in late.rows :
          /\ \A k \in 1..Len(pending) : pending[k] # r
          /\ \A k \in 1..Len(clusters) :
                \A m \in 1..Len(clusters[k].records) : clusters[k].records[m] # r
          /\ tx.refs[r] = placeholder_id
          /\ db.refs[r] = placeholder_id
    /\ \A a \in late.addresses :
          /\ \A k \in 1..Len(existing) : existing[k] # a
          /\ \A c \in DOMAIN existing_grid : existing_grid[c] # a
          /\ \A r \in DOMAIN tx.refs : tx.refs[r] # a

\* A finished real run that reused an address and looked a cluster up, while
\* another session attached a row lying in one of the run's clusters and
\* added an address lying in the cell of a cluster the run looked up.
C15_Witness ==
    /\ pc = "done" /\ ~dry_run
    /\ records_updated_phase1 >= 1 /\ records_updated_phase2 >= 1
    /\ \E r \in late.rows : CellOf(r) \in ClusterCells
    /\ \E a \in late.addresses :
          snap_to_grid(db.addresses[a].lat, db.addresses[a].lng,
                       DEFAULT_GRID_SIZE) \in LookupCells

\* The first pending row, in the order the run read them, that lies in cell.
FirstPendingIn(cell) ==
    pending[Min({ m \in 1..Len(pending) : CellOf(pending[m]) = cell })]

\* C16: the coordinate sent to the provider for a cluster is the actual,
\* un-snapped position of the cluster's first row in the order the rows were
\* read; the address stored after a successful lookup carries the cluster
\* key, the snapped coordinate, and the cluster's rows reference it.
C16_SendsFirstRowStoresKey ==
    /\ \A k \in 1..Len(calls) :
          /\ calls[k].at = positions[FirstPendingIn(calls[k].cell)]
          /\ calls[k].cell = snap_to_grid(calls[k].at[1], calls[k].at[2],
                                          DEFAULT_GRID_SIZE)
    /\ InPhase2OrLater =>
          \A k \in 1..Len(calls) : calls[k].ok =>
              \E a \in InsertedRows :
                  /\ tx.addresses[a].lat = calls[k].cell[1]
                  /\ tx.addresses[a].lng = calls[k].cell[2]
                  /\ tx.refs[FirstPendingIn(calls[k].cell)] = a

\* A successful lookup of a cluster of two rows at different positions, none
\* of them on the grid: the first row's position was sent, the key stored.
C16_Witness ==
    /\ pc = "phase2"
    /\ \E k \in 1..Len(calls) :
          /\ calls[k].ok
          /\ calls[k].at # calls[k].cell
          /\ \E r \in RecordsOf(calls[k].cell) :
                /\ positions[r] # calls[k].at
                /\ positions[r] # calls[k].cell
          /\ \E a \in InsertedRows :
                << tx.addresses[a].lat, tx.addresses[a].lng >> = calls[k].cell

\* C17: in the committed store, at every moment of a run, the rows of each
\* cluster of the run either all reference the placeholder or all reference
\* one and the same address that is not the placeholder; and every address
\* the run has committed is the key of a cluster whose rows all reference it.
C17_ClusterCommittedWhole ==
    /\ \A k \in 1..Len(clusters) :
          LET R == { clusters[k].records[m] : m \in 1..Len(clusters[k].records) }
          IN  \/ \A r \in R : db.refs[r] = placeholder_id
              \/ \E a \in DOMAIN db.addresses :
                    /\ ~db.addresses[a].placeholder
                    /\ \A r \in R : db.refs[r] = a
    /\ \A a \in (DOMAIN db.addresses) \ (DOMAIN db0.addresses) :
          \E k \in 1..Len(clusters) :
              /\ clusters[k].cell = << db.addresses[a].lat, db.addresses[a].lng >>
              /\ \A m \in 1..Len(clusters[k].records) :
                    db.refs[clusters[k].records[m]] = a

\* A run that crashed in Phase 2 after it had committed the reuse of an
\* address by a cluster of several rows and while a successful lookup was
\* not committed yet.
C17_Witness ==
    /\ pc = "crashed" /\ crashed_in = "phase2"
    /\ uncommitted # {}
    /\ \E k \in 1..Len(clusters) :
          /\ Len(clusters[k].records) >= 2
          /\ clusters[k].cell \in ReuseCells
          /\ db.refs[clusters[k].records[1]] = existing_grid[clusters[k].cell]

\* Rows in the clusters k..Len(cs) of the sequence of clusters cs.
RECURSIVE RowsFrom(_, _)
RowsFrom(cs, k) ==
    IF k > Len(cs) THEN 0 ELSE Len(cs[k].records) + RowsFrom(cs, k + 1)

\* Rows of the clusters whose lookup failed.
FailedRows ==
    RowsFrom(SelectSeq(clusters, LAMBDA c : c.cell \in FailedCells), 1)

\* C18: the clusters partition the pending rows (every pending row is in
\* exactly one cluster, under the key of its own cell, and the cluster sizes
\* add up to the number of pending rows); the clusters split into those the
\* catalog matched and those to look up; and when a real run ends, the rows
\* updated in Phase 1, the rows updated in Phase 2 and the rows of the failed
\* clusters add up to the pending rows, the matches and the calls to the
\* clusters, and the failures do not exceed the calls.
C18_Conservation ==
    /\ RowsFrom(clusters, 1) = Len(pending)
    /\ \A n \in 1..Len(pending) :
          Cardinality({ k \in 1..Len(clusters) :
              \E m \in 1..Len(clusters[k].records) :
                  clusters[k].records[m] = pending[n] }) = 1
    /\ \A k \in 1..Len(clusters) : \A m \in 1..Len(clusters[k].records) :
          CellOf(clusters[k].records[m]) = clusters[k].cell
    /\ api_errors <= api_calls
    /\ pc \in {"phase2", "phase3", "done"} =>
          matched_from_existing + Len(cells_to_geocode) = Len(clusters)
    /\ (pc = "done" /\ ~dry_run) =>
          /\ records_updated_phase1 + records_updated_phase2 + FailedRows
                = Len(pending)
          /\ matched_from_existing + api_calls = Len(clusters)
          /\ api_errors = Cardinality(FailedCells)

\* A finished real run over three pending rows in which the lookup of a
\* cluster of two rows succeeded and the lookup of another cluster failed.
C18_Witness ==
    /\ pc = "done" /\ ~dry_run
    /\ Len(pending) = 3
    /\ records_updated_phase2 = 2
    /\ FailedRows = 1

\* What one step may do to the committed store: a row's reference changes
\* only if the row is in the run's list of pending rows and referenced the
\* placeholder, and only to an address of the store that is not the
\* placeholder; an address row stays as it is, or it is the placeholder and
\* is deleted.
FrameOfRun(before, after) ==
    /\ DOMAIN after.refs = DOMAIN before.refs
    /\ \A r \in DOMAIN before.refs :
          after.refs[r] # before.refs[r] =>
              /\ before.refs[r] = placeholder_id
              /\ \E n \in 1..Len(pending) : pending[n] = r
              /\ after.refs[r] \in DOMAIN after.addresses
              /\ ~after.addresses[after.refs[r]].placeholder
    /\ \A a \in DOMAIN before.addresses :
          IF a \in DOMAIN after.addresses
          THEN after.addresses[a] = before.addresses[a]
          ELSE a = placeholder_id /\ before.addresses[a].placeholder

\* C19: every step of every run, the first or a later one, changes the
\* committed store within the frame: only pending rows that referenced the
\* placeholder are rewritten, and to a resolved address; a row that references
\* a resolved address keeps its reference; no address other than the
\* placeholder is modified or deleted.
C19_FrameOfRun == [][FrameOfRun(db, db')]_vars

\* A later run has finished as a real run: a row that was resolved when it
\* started has the same reference, a row that was pending is resolved, and
\* the run before had resolved a cluster by a lookup.
C19_Witness ==
    /\ runs >= 2 /\ pc = "done" /\ ~dry_run
    /\ prev.ok # {}
    /\ \E r \in DOMAIN db.refs :
          /\ db0.refs[r] \notin {NULL, placeholder_id}
          /\ db.refs[r] = db0.refs[r]
    /\ \E r \in DOMAIN db.refs :
          /\ db0.refs[r] = placeholder_id
          /\ db.refs[r] \notin {NULL, placeholder_id}

====
